---- MODULE Spec2Model ----
(***************************************************************************)
(* Line-sheet view model of src/components/client-line-sheet.tsx and       *)
(* src/components/internal-line-sheet.tsx: CSV ingestion (Papa.parse with  *)
(* header normalisation, row coercion) and the search / filter / paginate  *)
(* state of the two React components.                                      *)
(*                                                                         *)
(* JavaScript strings are TLA+ strings; characters are one-character       *)
(* strings obtained with SubSeq.  Floating point fields are held in        *)
(* hundredths (12.50 is 1250); every cell of the modelled files has at     *)
(* most two fraction digits, so nothing is lost by the scaling.            *)
(***************************************************************************)
EXTENDS Integers, Sequences, FiniteSets, Bags, TLC

VARIABLES variant, items, currentPage, searchTerm, statusFilter,
          categoryFilter, viewMode, error, parsing, lastDropped

\* variant      which component is mounted: "client" or "internal"
\* items ... error   the useState cells of the component
\* parsing      the bag of files whose Papa.parse is in flight, i.e. whose
\*              complete callback has not run yet
\* lastDropped  the file handed to the latest onDrop call ("none" before it)
vars == <<variant, items, currentPage, searchTerm, statusFilter,
          categoryFilter, viewMode, error, parsing, lastDropped>>

(***************************************************************************)
(* Bounds of the model.                                                    *)
(***************************************************************************)
\* number of Papa.parse calls that may be in flight at once
MaxInFlight == 2

\* the cost inputs of calculateMargin run over -MaxCost..MaxCost hundredths
MaxCost == 4

(***************************************************************************)
(* Strings.                                                                *)
(***************************************************************************)
Upper == "ABCDEFGHIJKLMNOPQRSTUVWXYZ"
Lower == "abcdefghijklmnopqrstuvwxyz"
Digits == "0123456789"

CharAt(s, i) == SubSeq(s, i, i)

UpperSet == {CharAt(Upper, i) : i \in 1..Len(Upper)}
DigitSet == {CharAt(Digits, i) : i \in 1..Len(Digits)}
\* the characters matched by the regular expression class \s
WhitespaceSet == {" ", "\t", "\n", "\r"}

LowerOf == [c \in UpperSet |->
              CharAt(Lower, CHOOSE i \in 1..Len(Upper) : CharAt(Upper, i) = c)]

DigitVal == [c \in DigitSet |->
              (CHOOSE i \in 1..Len(Digits) : CharAt(Digits, i) = c) - 1]

\* String.prototype.toLowerCase
RECURSIVE toLowerCase(_)
toLowerCase(s) ==
    IF s = "" THEN ""
    ELSE LET c == CharAt(s, 1)
         IN  (IF c \in UpperSet THEN LowerOf[c] ELSE c) \o toLowerCase(Tail(s))

\* String.prototype.replace(/\s+/g, '')
RECURSIVE stripWhitespace(_)
stripWhitespace(s) ==
    IF s = "" THEN ""
    ELSE LET c == CharAt(s, 1)
         IN  (IF c \in WhitespaceSet THEN "" ELSE c) \o stripWhitespace(Tail(s))

\* String.prototype.includes
RECURSIVE includes(_, _)
includes(s, t) ==
    \/ Len(t) <= Len(s) /\ SubSeq(s, 1, Len(t)) = t
    \/ s # "" /\ includes(Tail(s), t)

\* the transformHeader callback handed to Papa.parse
transformHeader(header) == stripWhitespace(toLowerCase(header))

(***************************************************************************)
(* Numbers: parseInt and parseFloat return [nan, val]; NaN is falsy, so    *)
(* `x || 0` yields 0 for NaN and for 0.                                    *)
(***************************************************************************)
NaN == [nan |-> TRUE, val |-> 0]
Num(n) == [nan |-> FALSE, val |-> n]

RECURSIVE TrimStart(_)
TrimStart(s) ==
    IF s # "" /\ CharAt(s, 1) \in WhitespaceSet THEN TrimStart(Tail(s)) ELSE s

RECURSIVE DigitsPrefix(_)
DigitsPrefix(s) ==
    IF s # "" /\ CharAt(s, 1) \in DigitSet
    THEN CharAt(s, 1) \o DigitsPrefix(Tail(s))
    ELSE ""

RECURSIVE DigitsValue(_, _)
DigitsValue(s, acc) ==
    IF s = "" THEN acc
    ELSE DigitsValue(Tail(s), acc * 10 + DigitVal[CharAt(s, 1)])

Sign(s) == IF s # "" /\ CharAt(s, 1) = "-" THEN -1 ELSE 1
Unsigned(s) == IF s # "" /\ CharAt(s, 1) \in {"-", "+"} THEN Tail(s) ELSE s

\* parseInt(s): leading whitespace, optional sign, longest run of digits
parseInt(s) ==
    LET t == TrimStart(s)
        d == DigitsPrefix(Unsigned(t))
    IN  IF d = "" THEN NaN ELSE Num(Sign(t) * DigitsValue(d, 0))

\* parseFloat(s) in hundredths: sign, digits, optional "." and digits
parseFloat(s) ==
    LET t  == TrimStart(s)
        u  == Unsigned(t)
        ip == DigitsPrefix(u)
        r  == SubSeq(u, Len(ip) + 1, Len(u))
        fp == IF r # "" /\ CharAt(r, 1) = "." THEN DigitsPrefix(Tail(r)) ELSE ""
    IN  IF ip = "" /\ fp = "" THEN NaN
        ELSE Num(Sign(t) * (DigitsValue(ip, 0) * 100
                             + DigitsValue(SubSeq(fp \o "00", 1, 2), 0)))

\* x || 0
OrZero(r) == IF r.nan \/ r.val = 0 THEN 0 ELSE r.val

(***************************************************************************)
(* The CSV files a user may drop.  A file is its header line, its data     *)
(* lines (each a sequence of cells; an empty line is the single empty      *)
(* cell) and the number of errors the parser reports for it.               *)
(***************************************************************************)
TopsRow(i) ==
    << "4" \o CharAt(Digits, (i % 10) + 1),
       IF i = 4 THEN "Long tee" ELSE IF i % 2 = 1 THEN "Tee" ELSE "Polo",
       IF i <= 7 THEN "Tops" ELSE "Bottoms",
       "50",
       IF i = 3 THEN "12.50" ELSE IF i = 5 THEN "-5.25"
                  ELSE IF i = 6 THEN "abc" ELSE "0",
       "http://a" >>

\* twelve data lines (seven Tops, five Bottoms), no status column, and an
\* empty line after the fifth
tops12 ==
    [header |-> <<"ID", " Name", "Category ", "Min Order Quantity", "BALANCE",
                  "imageUrl">>,
     lines  |-> [i \in 1..13 |->
                   IF i = 6 THEN <<"">> ELSE TopsRow(IF i < 6 THEN i ELSE i - 1)],
     errors |-> 0]

big21 ==
    [header |-> <<"name", "STATUS", "category", "minOrderQuantity",
                  "Factory Cost", "production cost", "shipping", "Note">>,
     lines  |-> [i \in 1..21 |->
                   << IF i % 3 = 0 THEN "Jogger" ELSE "jean",
                      IF i <= 11 THEN "In Production" ELSE "",
                      IF i <= 15 THEN "Bottoms" ELSE IF i = 21 THEN "All" ELSE "Tops",
                      "100", "abc", IF i = 2 THEN "-7.5" ELSE "7.5", "sea", "x" >>],
     errors |-> 0]

headerOnly ==
    [header |-> <<"name", "category", "status">>,
     lines  |-> <<>>,
     errors |-> 0]

malformed ==
    [header |-> <<"name", "category">>,
     lines  |-> << <<"Bad", "Tops">>, <<"Broken">> >>,
     errors |-> 1]

Files == [f \in {"tops12", "big21", "headerOnly", "malformed"} |->
            CASE f = "tops12"     -> tops12
              [] f = "big21"      -> big21
              [] f = "headerOnly" -> headerOnly
              [] f = "malformed"  -> malformed]

FileNames == DOMAIN Files

\* what the user may type into the search box
SearchTerms == {"", "TEE", "jo"}

(***************************************************************************)
(* Papa.parse with header: true, skipEmptyLines: true and transformHeader: *)
(* the result carries the error count and one object per non-empty data    *)
(* line, keyed by the transformed header names.                            *)
(***************************************************************************)
NonEmptyLines(lines) == SelectSeq(lines, LAMBDA l : l # <<"">>)

RowObject(keys, line) ==
    LET n == IF Len(line) < Len(keys) THEN Len(line) ELSE Len(keys)
    IN  [k \in {keys[j] : j \in 1..n} |->
           line[CHOOSE j \in 1..n : keys[j] = k]]

PapaParse(file) ==
    LET keys == [j \in 1..Len(file.header) |-> transformHeader(file.header[j])]
        kept == NonEmptyLines(file.lines)
    IN  [errors |-> file.errors,
         data   |-> [i \in 1..Len(kept) |-> RowObject(keys, kept[i])]]

(***************************************************************************)
(* Row coercion: result.data.map((row, index) => ({...})).                 *)
(***************************************************************************)
\* row.key || ''
StringField(row, key) == IF key \in DOMAIN row THEN row[key] ELSE ""

\* parseInt(row.key as string) || 0
IntField(row, key) ==
    OrZero(IF key \in DOMAIN row THEN parseInt(row[key]) ELSE NaN)

\* parseFloat(row.key as string) || 0
FloatField(row, key) ==
    OrZero(IF key \in DOMAIN row THEN parseFloat(row[key]) ELSE NaN)

\* index is the 0-based position handed to the map callback
ClientItem(row, index) ==
    [id               |-> index + 1,
     name             |-> StringField(row, "name"),
     balance          |-> FloatField(row, "balance"),
     minOrderQuantity |-> IntField(row, "minOrderQuantity"),
     sampleLeadTime   |-> StringField(row, "sampleLeadTime"),
     bulkLeadTime     |-> StringField(row, "bulkLeadTime"),
     status           |-> StringField(row, "status"),
     sizes            |-> StringField(row, "sizes"),
     fabricMaterial   |-> StringField(row, "fabricMaterial"),
     category         |-> StringField(row, "category"),
     imageUrl         |-> StringField(row, "imageUrl")]

InternalItem(row, index) ==
    [id               |-> index + 1,
     name             |-> StringField(row, "name"),
     minOrderQuantity |-> IntField(row, "minOrderQuantity"),
     sampleCost       |-> FloatField(row, "sampleCost"),
     productionCost   |-> FloatField(row, "productionCost"),
     factoryCost      |-> FloatField(row, "factoryCost"),
     shipping         |-> StringField(row, "shipping"),
     sampleLeadTime   |-> StringField(row, "sampleLeadTime"),
     bulkLeadTime     |-> StringField(row, "bulkLeadTime"),
     status           |-> StringField(row, "status"),
     note             |-> StringField(row, "note"),
     sizes            |-> StringField(row, "sizes"),
     fabricMaterial   |-> StringField(row, "fabricMaterial"),
     category         |-> StringField(row, "category"),
     imageUrl         |-> StringField(row, "imageUrl"),
     alibabaUrl       |-> StringField(row, "alibabaUrl")]

\* the coercer taking the id from an "id" column when the row has one
parsedDataIdFromRow(v, data) ==
    [i \in 1..Len(data) |->
       LET item == IF v = "client" THEN ClientItem(data[i], i - 1)
                                   ELSE InternalItem(data[i], i - 1)
       IN  IF "id" \in DOMAIN data[i]
           THEN [item EXCEPT !.id = IntField(data[i], "id")]
           ELSE item]

\* the coercer leaving out the rows whose balance cell is not a number
parsedDataSkipsUnparseable(v, data) ==
    LET numeric(row) ==
            "balance" \notin DOMAIN row \/ ~parseFloat(row["balance"]).nan
        kept == SelectSeq(data, numeric)
    IN  [i \in 1..Len(kept) |->
           IF v = "client" THEN ClientItem(kept[i], i - 1)
                           ELSE InternalItem(kept[i], i - 1)]

parsedData(v, data) ==
    [i \in 1..Len(data) |->
       IF v = "client" THEN ClientItem(data[i], i - 1)
                       ELSE InternalItem(data[i], i - 1)]

\* Papa.parse and the coercion are functions of the file alone: their
\* results per variant and file, computed once
ParseResult == [f \in FileNames |-> PapaParse(Files[f])]

Batch == [v \in {"client", "internal"} |->
            [f \in FileNames |-> parsedData(v, ParseResult[f].data)]]

(***************************************************************************)
(* Values derived on every render.                                         *)
(***************************************************************************)
null == "null"
ParseErrorMessage == "Error parsing CSV file. Please check the file format."

itemsPerPage == IF variant = "client" THEN 9 ELSE 10

\* toLowerCase of every name of a batch and of every search term, computed
\* once
Names == UNION {{Batch[v][f][r].name : r \in 1..Len(Batch[v][f])} :
                   v \in {"client", "internal"}, f \in FileNames}

LowerCased == [s \in Names \cup SearchTerms |-> toLowerCase(s)]

\* the filter comparing the lower-cased name with the search term as typed
MatchesTermAsTyped(item) ==
    /\ includes(LowerCased[item.name], searchTerm)
    /\ (statusFilter = "All" \/ item.status = statusFilter)
    /\ (categoryFilter = "All" \/ item.category = categoryFilter)

\* item.name.toLowerCase().includes(searchTerm.toLowerCase()) && ...
Matches(item) ==
    /\ includes(LowerCased[item.name], LowerCased[searchTerm])
    /\ (statusFilter = "All" \/ item.status = statusFilter)
    /\ (categoryFilter = "All" \/ item.category = categoryFilter)

filteredItems == SelectSeq(items, Matches)

\* the page count rounded down instead of up
totalPagesFloor == Len(filteredItems) \div itemsPerPage

\* Math.ceil(filteredItems.length / itemsPerPage)
totalPages == (Len(filteredItems) + itemsPerPage - 1) \div itemsPerPage

startIndex == (currentPage - 1) * itemsPerPage

\* Array.prototype.slice(start, end) for 0 <= start <= end
slice(arr, start, end) ==
    LET e == IF end < Len(arr) THEN end ELSE Len(arr)
    IN  IF start >= e THEN <<>> ELSE SubSeq(arr, start + 1, e)

displayedItems == slice(filteredItems, startIndex, startIndex + itemsPerPage)

\* Array.from(new Set(values)): distinct values in order of first occurrence
RECURSIVE Distinct(_, _)
Distinct(values, seen) ==
    IF values = <<>> THEN seen
    ELSE Distinct(Tail(values),
                  IF \E j \in 1..Len(seen) : seen[j] = Head(values)
                  THEN seen ELSE Append(seen, Head(values)))

\* the category options taken from the filtered records instead of all records
categoriesOfFiltered ==
    Distinct([i \in 1..Len(filteredItems) |-> filteredItems[i].category], <<>>)

categories == Distinct([i \in 1..Len(items) |-> items[i].category], <<>>)
statuses   == Distinct([i \in 1..Len(items) |-> items[i].status], <<>>)

\* {totalPages > 1 && ( ...pagination controls... )}
paginationShown == totalPages > 1

Range(seq) == {seq[i] : i \in 1..Len(seq)}

(***************************************************************************)
(* State machine.                                                          *)
(***************************************************************************)
Init ==
    /\ variant \in {"client", "internal"}
    /\ items = <<>>
    /\ currentPage = 1
    /\ searchTerm = ""
    /\ statusFilter = "All"
    /\ categoryFilter = "All"
    /\ viewMode = IF variant = "client" THEN "grid" ELSE "table"
    /\ error = null
    /\ parsing = EmptyBag
    /\ lastDropped = "none"

\* onDrop(acceptedFiles): starts an asynchronous parse of the first file
onDrop(acceptedFiles) ==
    IF acceptedFiles = <<>>
    THEN UNCHANGED vars
    ELSE /\ BagCardinality(parsing) < MaxInFlight
         /\ parsing' = parsing (+) SetToBag({acceptedFiles[1]})
         /\ lastDropped' = acceptedFiles[1]
         /\ UNCHANGED <<variant, items, currentPage, searchTerm, statusFilter,
                        categoryFilter, viewMode, error>>

\* the complete callback emptying the record set when the parse has errors
completeClearsOnError(f) ==
    LET result == ParseResult[f]
    IN  /\ parsing' = parsing (-) SetToBag({f})
        /\ IF result.errors > 0
           THEN /\ error' = ParseErrorMessage
                /\ items' = <<>>
           ELSE /\ items' = Batch[variant][f]
                /\ error' = null
        /\ UNCHANGED <<variant, currentPage, searchTerm, statusFilter,
                       categoryFilter, viewMode, lastDropped>>

\* the complete callback without setError(null) on success
completeKeepsError(f) ==
    LET result == ParseResult[f]
    IN  /\ parsing' = parsing (-) SetToBag({f})
        /\ IF result.errors > 0
           THEN /\ error' = ParseErrorMessage
                /\ UNCHANGED items
           ELSE /\ items' = Batch[variant][f]
                /\ UNCHANGED error
        /\ UNCHANGED <<variant, currentPage, searchTerm, statusFilter,
                       categoryFilter, viewMode, lastDropped>>

\* the complete callback of a parse of file f that is in flight
complete(f) ==
    LET result == ParseResult[f]
    IN  /\ parsing' = parsing (-) SetToBag({f})
        /\ IF result.errors > 0
           THEN /\ error' = ParseErrorMessage
                /\ UNCHANGED items
           ELSE /\ items' = Batch[variant][f]
                /\ error' = null
        /\ UNCHANGED <<variant, currentPage, searchTerm, statusFilter,
                       categoryFilter, viewMode, lastDropped>>

\* the search handler going back to the first page
setSearchTermResetsPage(value) ==
    /\ searchTerm' = value
    /\ currentPage' = 1
    /\ UNCHANGED <<variant, items, statusFilter, categoryFilter, viewMode,
                   error, parsing, lastDropped>>

\* onChange of the search Input
setSearchTerm(value) ==
    /\ searchTerm' = value
    /\ UNCHANGED <<variant, items, currentPage, statusFilter, categoryFilter,
                   viewMode, error, parsing, lastDropped>>

\* onValueChange of the category Select
setCategoryFilter(value) ==
    /\ categoryFilter' = value
    /\ UNCHANGED <<variant, items, currentPage, searchTerm, statusFilter,
                   viewMode, error, parsing, lastDropped>>

\* onValueChange of the status Select
setStatusFilter(value) ==
    /\ statusFilter' = value
    /\ UNCHANGED <<variant, items, currentPage, searchTerm, categoryFilter,
                   viewMode, error, parsing, lastDropped>>

\* the view handler going back to the first page
setViewModeResetsPage(value) ==
    /\ variant = "client"
    /\ viewMode' = value
    /\ currentPage' = 1
    /\ UNCHANGED <<variant, items, searchTerm, statusFilter, categoryFilter,
                   error, parsing, lastDropped>>

\* onValueChange of the view Select (client variant only)
setViewMode(value) ==
    /\ variant = "client"
    /\ viewMode' = value
    /\ UNCHANGED <<variant, items, currentPage, searchTerm, statusFilter,
                   categoryFilter, error, parsing, lastDropped>>

Max(a, b) == IF a > b THEN a ELSE b
Min(a, b) == IF a < b THEN a ELSE b

\* onClick of the previous Button: rendered when totalPages > 1,
\* disabled on page 1
previousPage ==
    /\ paginationShown
    /\ currentPage # 1
    /\ currentPage' = Max(currentPage - 1, 1)
    /\ UNCHANGED <<variant, items, searchTerm, statusFilter, categoryFilter,
                   viewMode, error, parsing, lastDropped>>

\* onClick of the next Button: rendered when totalPages > 1,
\* disabled on the page numbered totalPages
nextPage ==
    LET pages == totalPages
    IN  /\ pages > 1
        /\ currentPage # pages
        /\ currentPage' = Min(currentPage + 1, pages)
        /\ UNCHANGED <<variant, items, searchTerm, statusFilter,
                       categoryFilter, viewMode, error, parsing, lastDropped>>

\* the text of the pagination footer, "Showing X-Y of Z items", as the triple
\* <<X, Y, Z>>; the footer is rendered only inside {totalPages > 1 && (...)},
\* so without it there is no text (the empty tuple)
showingText ==
    IF totalPages > 1
    THEN << startIndex + 1,
            Min(startIndex + itemsPerPage, Len(filteredItems)),
            Len(filteredItems) >>
    ELSE << >>

AcceptedFiles ==
    {<<>>} \cup {<<f>> : f \in FileNames} \cup {<<"big21", "tops12">>}

Next ==
    \/ \E acceptedFiles \in AcceptedFiles : onDrop(acceptedFiles)
    \/ \E f \in BagToSet(parsing) : complete(f)
    \/ \E value \in SearchTerms : setSearchTerm(value)
    \/ \E value \in {"All"} \cup Range(categories) : setCategoryFilter(value)
    \/ \E value \in {"All"} \cup Range(statuses) : setStatusFilter(value)
    \/ \E value \in {"grid", "table"} : setViewMode(value)
    \/ previousPage
    \/ nextPage

Spec == Init /\ [][Next]_vars

TypeOK ==
    /\ variant \in {"client", "internal"}
    /\ currentPage \in Nat
    /\ searchTerm \in SearchTerms
    /\ viewMode \in {"grid", "table"}
    /\ error \in {null, ParseErrorMessage}
    /\ IsABag(parsing)
    /\ BagToSet(parsing) \subseteq FileNames
    /\ BagCardinality(parsing) <= MaxInFlight

(***************************************************************************)
(* The margin column of the internal variant.  A JS number that results    *)
(* from the division is held exactly, as num / den with den > 0; dividing  *)
(* by zero gives Infinity or NaN as in JS.                                 *)
(***************************************************************************)
Ratio(num, den) ==
    [kind |-> "finite",
     num  |-> IF den < 0 THEN 0 - num ELSE num,
     den  |-> IF den < 0 THEN 0 - den ELSE den]

Divide(a, b) ==
    IF b # 0 THEN Ratio(a, b)
    ELSE [kind |-> IF a = 0 THEN "NaN"
                   ELSE IF a > 0 THEN "Infinity" ELSE "-Infinity",
          num  |-> 0,
          den  |-> 1]

Times(r, k) == IF r.kind = "finite" THEN [r EXCEPT !.num = r.num * k] ELSE r

\* the guard testing the wrong argument
calculateMarginTestsProductionCost(productionCost, factoryCost) ==
    IF productionCost = 0 THEN Ratio(0, 1)
    ELSE Times(Divide(productionCost - factoryCost, factoryCost), 100)

calculateMargin(productionCost, factoryCost) ==
    IF factoryCost = 0 THEN Ratio(0, 1)
    ELSE Times(Divide(productionCost - factoryCost, factoryCost), 100)

\* the margin cell of every displayed row
margins ==
    [i \in 1..Len(displayedItems) |->
       calculateMargin(displayedItems[i].productionCost,
                       displayedItems[i].factoryCost)]

\* calculateMargin on its own: the internal sheet showing two records whose
\* costs are drawn from CostValues (in hundredths), re-rendered as the
\* search term and the filters change
CostValues == (-MaxCost..MaxCost) \cup {-3000, 3000}

CostRecord(index, productionCost, factoryCost) ==
    [InternalItem(<<>>, index) EXCEPT !.name = "jean",
                                      !.productionCost = productionCost,
                                      !.factoryCost = factoryCost]

InitMargin ==
    /\ variant = "internal"
    /\ \E productionCost \in CostValues, factoryCost \in CostValues :
          items = << CostRecord(0, productionCost, factoryCost),
                     CostRecord(1, factoryCost, productionCost) >>
    /\ currentPage = 1
    /\ searchTerm = ""
    /\ statusFilter = "All"
    /\ categoryFilter = "All"
    /\ viewMode = "table"
    /\ error = null
    /\ parsing = EmptyBag
    /\ lastDropped = "none"

NextMargin ==
    \/ \E value \in SearchTerms : setSearchTerm(value)
    \/ \E value \in {"All"} \cup Range(categories) : setCategoryFilter(value)
    \/ \E value \in {"All"} \cup Range(statuses) : setStatusFilter(value)

SpecMargin == InitMargin /\ [][NextMargin]_vars

(***************************************************************************)
(* Properties.                                                             *)
(***************************************************************************)
\* the step in which a parse of file f completes
Completes(f) == BagIn(f, parsing) /\ parsing' = parsing (-) SetToBag({f})


\* C1: currentPage always lies in [1, max(1, totalPages)], whatever sequence
\* of uploads, search and filter changes and page navigation led here.
C1_PageWithinBounds ==
    currentPage >= 1 /\ currentPage <= Max(1, totalPages)

\* C2: a parse completing without errors installs exactly the parsed batch
\* and resets currentPage to 1 and the search term and both filters to their
\* defaults.
C2_IngestionResetsView ==
    [][\A f \in FileNames :
          (Completes(f) /\ Files[f].errors = 0)
          => /\ items' = Batch[variant][f]
             /\ currentPage' = 1
             /\ searchTerm' = ""
             /\ categoryFilter' = "All"
             /\ statusFilter' = "All"]_vars

\* C3: in the client variant every step that changes the search term, the
\* category filter or the status filter leaves currentPage at 1.
C3_ClientFilterChangeResetsPage ==
    [][(/\ variant = "client"
        /\ \/ searchTerm' # searchTerm
           \/ categoryFilter' # categoryFilter
           \/ statusFilter' # statusFilter)
       => currentPage' = 1]_vars

\* the record fields whose names the coercer spells in camelCase
CamelCaseFields ==
    IF variant = "client"
    THEN {"minOrderQuantity", "sampleLeadTime", "bulkLeadTime",
          "fabricMaterial", "imageUrl"}
    ELSE {"minOrderQuantity", "sampleLeadTime", "bulkLeadTime",
          "fabricMaterial", "imageUrl", "sampleCost", "productionCost",
          "factoryCost", "alibabaUrl"}

\* the value a cell gives a field of the schema
CellValue(field, cell) ==
    IF field = "minOrderQuantity" THEN OrZero(parseInt(cell))
    ELSE IF field \in {"sampleCost", "productionCost", "factoryCost", "balance"}
    THEN OrZero(parseFloat(cell))
    ELSE cell

\* header h is the field name up to letter case and white space
SameUpToCaseAndSpace(h, field) ==
    toLowerCase(stripWhitespace(h)) = toLowerCase(stripWhitespace(field))

\* C4: after an ingestion without errors, every column whose header is a
\* camelCase field name up to letter case and white space has its cell in
\* that field of every record of the batch.
C4_HeaderVariantsPopulateFields ==
    [][\A f \in FileNames :
          (Completes(f) /\ Files[f].errors = 0)
          => LET file == Files[f]
                 kept == NonEmptyLines(file.lines)
             IN  \A j \in 1..Len(file.header) : \A field \in CamelCaseFields :
                    SameUpToCaseAndSpace(file.header[j], field)
                    => \A r \in 1..Len(kept) :
                          /\ r \in 1..Len(items')
                          /\ items'[r][field] = CellValue(field, kept[r][j])]_vars

\* C5 as stated: a parse completing with errors while a batch is loaded sets
\* the error message and empties the record set.
C5_FailedParseClearsBatch ==
    [][\A f \in FileNames :
          (Completes(f) /\ Files[f].errors > 0 /\ items # <<>>)
          => (error' = ParseErrorMessage /\ items' = <<>>)]_vars

\* C5 as amended: a parse completing with errors while a batch is loaded sets
\* the error message and leaves the record set as it was.
C5_FailedParseKeepsBatch ==
    [][\A f \in FileNames :
          (Completes(f) /\ Files[f].errors > 0 /\ items # <<>>)
          => (error' = ParseErrorMessage /\ items' = items)]_vars

\* a batch is on display together with the message of a later failed parse
C5_Witness ==
    error = ParseErrorMessage /\ items # <<>> /\ lastDropped = "malformed"

\* C6: the error state is set by every parse completing with errors, cleared
\* by every parse completing without errors, and changed by no other step.
C6_ErrorTracksLastParse ==
    [][/\ \A f \in FileNames :
             Completes(f)
             => error' = IF Files[f].errors > 0
                         THEN ParseErrorMessage ELSE null
       /\ BagCardinality(parsing') >= BagCardinality(parsing)
          => error' = error]_vars

\* the malformed file was dropped last and has completed, and a parse that
\* completed after it without errors has cleared its message
C6_Witness ==
    lastDropped = "malformed" /\ parsing = EmptyBag /\ error = null

\* C7: once every parse in flight has completed, the record set and the
\* error state are those of the file dropped last.
C7_LastDropWins ==
    (parsing = EmptyBag /\ lastDropped # "none")
    => IF Files[lastDropped].errors > 0
       THEN error = ParseErrorMessage
       ELSE items = Batch[variant][lastDropped] /\ error = null

\* the cells under the column whose header normalises to "name", one per
\* non-empty data line of the file
NameCells ==
    [f \in FileNames |->
       LET file == Files[f]
           kept == NonEmptyLines(file.lines)
           col  == CHOOSE j \in 1..Len(file.header) :
                      transformHeader(file.header[j]) = "name"
       IN  [r \in 1..Len(kept) |-> kept[r][col]]]

\* C8: the ids of the record set are 1..N in batch order, whatever an id
\* column of the source says, and a parse completing without errors leaves
\* exactly one record per data line of its file, numbered from 1.
C8_IdsDenseAndBatchReplaced ==
    /\ [](\A r \in 1..Len(items) : items[r].id = r)
    /\ [][\A f \in FileNames :
             (Completes(f) /\ Files[f].errors = 0)
             => /\ Len(items') = Len(NameCells[f])
                /\ \A r \in 1..Len(items') :
                      /\ items'[r].id = r
                      /\ items'[r].name = NameCells[f][r]]_vars

\* the twelve-line file, which has an ID column, replaced the three-page
\* batch on whose third page the user was
C8_Witness ==
    Len(items) = 12 /\ currentPage = 3

EqIgnoreCase(a, b) ==
    \/ a = b
    \/ a \in UpperSet /\ LowerOf[a] = b
    \/ b \in UpperSet /\ LowerOf[b] = a

ContainsIgnoreCase(s, t) ==
    \E k \in 0..(Len(s) - Len(t)) :
       \A j \in 1..Len(t) : EqIgnoreCase(CharAt(s, k + j), CharAt(t, j))

Selected(item) ==
    /\ ContainsIgnoreCase(item.name, searchTerm)
    /\ (categoryFilter = "All" \/ item.category = categoryFilter)
    /\ (statusFilter = "All" \/ item.status = statusFilter)

\* C9: the filtered sequence is the subsequence of the record set, in batch
\* order and without repetition, of exactly the records whose name contains
\* the search term case-insensitively and whose category and status pass
\* the two filters.
C9_FilterIsOrderedSubsequence ==
    \A f \in {filteredItems} :
       /\ \A k \in 1..Len(f) :
             f[k].id \in 1..Len(items) /\ items[f[k].id] = f[k]
       /\ \A k \in 1..(Len(f) - 1) : f[k].id < f[k + 1].id
       /\ \A r \in 1..Len(items) :
             Selected(items[r]) <=> \E k \in 1..Len(f) : f[k].id = r

\* the search term in upper case and a category filter select five of the
\* twelve records, among them one with the term inside its name
C9_Witness ==
    /\ searchTerm = "TEE"
    /\ categoryFilter = "Tops"
    /\ Len(items) = 12
    /\ Len(filteredItems) = 5

\* C10: totalPages is the ceiling of filteredCount / pageSize (9 client, 10
\* internal), the displayed slice is the filtered elements at the 0-based
\* positions from (currentPage-1)*pageSize up to currentPage*pageSize, an
\* empty filtered set gives no pages, no rows and no pagination controls,
\* and an empty record set gives empty option lists.
C10_PagesAndSlice ==
    \A filtered \in {filteredItems} : \A displayed \in {displayedItems} :
    \A pages \in {totalPages} :
       LET n     == Len(filtered)
           size  == IF variant = "client" THEN 9 ELSE 10
           first == (currentPage - 1) * size
           shown == {p \in 0..(n - 1) : first <= p /\ p < currentPage * size}
       IN  /\ pages * size >= n
           /\ (pages - 1) * size < n
           /\ Len(displayed) = Cardinality(shown)
           /\ \A p \in shown : displayed[p - first + 1] = filtered[p + 1]
           /\ n = 0 => pages = 0 /\ displayed = <<>> /\ ~paginationShown
           /\ items = <<>> => categories = <<>> /\ statuses = <<>>

\* the second and last page holds the remainder of a batch
C10_Witness ==
    /\ currentPage = 2
    /\ totalPages = 2
    /\ Len(displayedItems) \in 1..8
    /\ Len(displayedItems) < Len(filteredItems)

\* C11: "previous" takes currentPage to currentPage - 1 when it is above 1,
\* "next" takes it to currentPage + 1 when it is below totalPages, neither
\* leaves currentPage below 1 or above totalPages, and "next" never
\* decreases currentPage.
C11_PreviousNextStayInRange ==
    [][/\ previousPage => /\ currentPage > 1
                          /\ currentPage' = currentPage - 1
                          /\ currentPage' \in 1..totalPages'
       /\ nextPage => /\ currentPage < totalPages
                      /\ currentPage' = currentPage + 1
                      /\ currentPage' \in 1..totalPages'
                      /\ currentPage' >= currentPage]_vars

\* C12: the category option list holds exactly the distinct category values
\* of the whole record set, each once, and the status option list the
\* distinct status values, whatever the search term, the filters and the
\* page are; the two lists change only in a step in which a parse completes
\* without errors and replaces the record set (being determined by the
\* record set, they are compared across the steps that change it).
C12_OptionListsFromFullRecordSet ==
    /\ [](/\ Range(categories) = {items[i].category : i \in 1..Len(items)}
          /\ Len(categories) = Cardinality(Range(categories))
          /\ Range(statuses) = {items[i].status : i \in 1..Len(items)}
          /\ Len(statuses) = Cardinality(Range(statuses)))
    /\ [][LET categoriesNext ==
                 Distinct([i \in 1..Len(items') |-> items'[i].category], <<>>)
             statusesNext ==
                 Distinct([i \in 1..Len(items') |-> items'[i].status], <<>>)
         IN  (/\ items' # items
              /\ (categoriesNext # categories \/ statusesNext # statuses))
             => \E f \in FileNames :
                   /\ Completes(f)
                   /\ Files[f].errors = 0
                   /\ items' = Batch[variant][f]]_vars

\* a search term and a category filter leave one record of twenty-one while
\* the category list still offers the three categories of the batch
C12_Witness ==
    /\ Len(items) = 21
    /\ searchTerm = "jo"
    /\ categoryFilter = "Tops"
    /\ Len(filteredItems) = 1
    /\ Len(categories) = 3
    /\ Len(statuses) = 2

\* C13: in the client variant, on the first page of a loaded batch with an
\* empty search term, no status filter and the category filter set to a
\* category value c of the batch (other than the value "All", which the
\* filter has before any selection), filteredCount is the number of records of
\* category c and the footer shows the range startIndex + 1 to
\* min(startIndex + 9, filteredCount) of filteredCount; for the twelve-row
\* batch with seven "Tops" that is filteredCount = 7, totalPages = 1 and the
\* text "1-7 of 7".
C13_CategoryFilterRangeText ==
    (/\ variant = "client"
     /\ currentPage = 1
     /\ searchTerm = ""
     /\ statusFilter = "All"
     /\ categoryFilter \in Range(categories) \ {"All"})
    => LET n == Cardinality({i \in 1..Len(items) :
                               items[i].category = categoryFilter})
       IN  /\ Len(filteredItems) = n
           /\ showingText = << startIndex + 1, Min(startIndex + 9, n), n >>
           /\ (Len(items) = 12 /\ categoryFilter = "Tops")
              => n = 7 /\ totalPages = 1 /\ showingText = << 1, 7, 7 >>

\* C14: the margin of every displayed record of the internal sheet is 0
\* when its factoryCost is 0, whatever its productionCost, and otherwise is
\* the number m with m * factoryCost = (productionCost - factoryCost) * 100,
\* which is negative when productionCost is below a positive factoryCost.
C14_MarginOfCosts ==
    variant = "internal"
    => \A i \in 1..Len(displayedItems) :
          LET p == displayedItems[i].productionCost
              f == displayedItems[i].factoryCost
              m == margins[i]
          IN  /\ m.kind = "finite"
              /\ m.den > 0
              /\ f = 0 => m.num = 0
              /\ f # 0 => m.num * f = (p - f) * 100 * m.den
              /\ (f > 0 /\ p < f) => m.num < 0

\* after a filter change, a record with factoryCost 0 and a negative
\* productionCost is displayed with margin 0, next to one with a negative
\* margin
C14_Witness ==
    /\ categoryFilter = ""
    /\ Len(displayedItems) = 2
    /\ displayedItems[1].factoryCost = 0
    /\ displayedItems[1].productionCost < 0
    /\ margins[1].num = 0
    /\ displayedItems[2].factoryCost # 0
    /\ margins[2].num < 0

\* the numeric fields of the schema of the variant
NumericFields ==
    IF variant = "client" THEN {"minOrderQuantity", "balance"}
    ELSE {"minOrderQuantity", "sampleCost", "productionCost", "factoryCost"}

\* a cell without any digit, which no number parser accepts
NoDigit(cell) == \A k \in 1..Len(cell) : CharAt(cell, k) \notin DigitSet

\* per file and numeric field, the data lines that give the field no number:
\* all of them when no header of the file is the field name up to letter
\* case and white space, else those whose cell under it has no digit
NumberlessLines ==
    [f \in FileNames |->
       [field \in {"minOrderQuantity", "balance", "sampleCost",
                   "productionCost", "factoryCost"} |->
          LET file == Files[f]
              kept == NonEmptyLines(file.lines)
              cols == {j \in 1..Len(file.header) :
                         SameUpToCaseAndSpace(file.header[j], field)}
          IN  {r \in 1..Len(kept) : \A j \in cols : NoDigit(kept[r][j])}]]

\* C15: a parse completing without errors keeps one record per data line and
\* leaves the error unset, and every numeric field whose column is missing
\* from the file, or whose cell holds no number, is 0 in the record; a
\* record of the internal sheet whose factoryCost is 0 in this way has
\* margin 0.
C15_CoercionIsTotal ==
    [][\A f \in FileNames :
          (Completes(f) /\ Files[f].errors = 0)
          => /\ error' = null
             /\ Len(items') = Len(NameCells[f])
             /\ \A field \in NumericFields : \A r \in NumberlessLines[f][field] :
                   /\ r \in 1..Len(items')
                   /\ items'[r][field] = 0
                   /\ field = "factoryCost"
                      => calculateMargin(items'[r].productionCost,
                                         items'[r].factoryCost).num = 0]_vars

\* the twelve-line file is loaded whole and without error: the balance cell
\* "abc" of its sixth line became 0, the cell "12.50" of its third 12.50
C15_Witness ==
    /\ variant = "client"
    /\ error = null
    /\ Len(items) = 12
    /\ items[6].balance = 0
    /\ items[3].balance = 1250
    /\ items[1].minOrderQuantity = 0

\* the currency fields of the schema of the variant
CurrencyFields ==
    IF variant = "client" THEN {"balance"}
    ELSE {"sampleCost", "productionCost", "factoryCost"}

\* per file and currency field, the negative amounts of the file: the pairs
\* of a data line and the value (in hundredths) of a cell "-digits[.digits]"
\* under a header that is the field name up to letter case and white space
NegativeCells ==
    [f \in FileNames |->
       [field \in {"balance", "sampleCost", "productionCost", "factoryCost"} |->
          LET file == Files[f]
              kept == NonEmptyLines(file.lines)
              cols == {j \in 1..Len(file.header) :
                         SameUpToCaseAndSpace(file.header[j], field)}
          IN  {<<r, parseFloat(kept[r][j]).val>> :
                 <<r, j>> \in {c \in (1..Len(kept)) \X cols :
                                 /\ CharAt(kept[c[1]][c[2]], 1) = "-"
                                 /\ parseFloat(kept[c[1]][c[2]]).val < 0}}]]

\* C16: after a parse completing without errors, a negative number in a cell
\* under the column of a currency field (balance in the client sheet;
\* sampleCost, productionCost and factoryCost in the internal sheet) is the
\* value of that field of the record, neither clamped nor replaced by 0.
C16_NegativeAmountsKept ==
    [][\A f \in FileNames :
          (Completes(f) /\ Files[f].errors = 0)
          => \A field \in CurrencyFields : \A c \in NegativeCells[f][field] :
                /\ c[1] \in 1..Len(items')
                /\ items'[c[1]][field] = c[2]]_vars

\* C17: in the internal sheet a step that changes the search term, the
\* category filter or the status filter leaves currentPage as it was.
C17_InternalFilterChangeKeepsPage ==
    [][(/\ variant = "internal"
        /\ \/ searchTerm' # searchTerm
           \/ categoryFilter' # categoryFilter
           \/ statusFilter' # statusFilter)
       => currentPage' = currentPage]_vars

\* the internal sheet still on page 3 of the twenty-one records after the
\* search term and both filters were set, which leave one record
C17_Witness ==
    /\ variant = "internal"
    /\ Len(items) = 21
    /\ currentPage = 3
    /\ searchTerm = "jo"
    /\ categoryFilter = "Tops"
    /\ statusFilter = ""
    /\ Len(filteredItems) = 1

\* C18: whenever the filtered set holds a record, the displayed slice holds
\* one too.
C18_MatchesAreDisplayed ==
    Len(filteredItems) > 0 => Len(displayedItems) > 0

\* C19: categoryFilter is "All" or a value of the category option list of
\* the loaded record set, and statusFilter is "All" or a value of its status
\* option list, also after a second file with other values was loaded while
\* a filter was set.
C19_FiltersAreOfferedOptions ==
    /\ categoryFilter \in {"All"} \cup Range(categories)
    /\ statusFilter \in {"All"} \cup Range(statuses)

\* C20: with an empty search term and the other filter at "All", a category
\* filter holding a value of the category option list selects exactly the
\* records of that category, and a status filter holding a value of the
\* status option list exactly the records of that status, also when the
\* value is the string "All".
C20_OptionSelectsItsRecords ==
    /\ (/\ searchTerm = ""
        /\ statusFilter = "All"
        /\ categoryFilter \in Range(categories))
       => filteredItems = SelectSeq(items, LAMBDA item :
                                             item.category = categoryFilter)
    /\ (/\ searchTerm = ""
        /\ categoryFilter = "All"
        /\ statusFilter \in Range(statuses))
       => filteredItems = SelectSeq(items, LAMBDA item :
                                             item.status = statusFilter)

\* C21: a step that changes the search term, a filter, the page or the view
\* mode leaves the record set and the error as they were, and a step that
\* changes the view mode also leaves the search term, both filters and the
\* page as they were, so that the displayed slice is the same in both views.
C21_ViewEventsKeepRecords ==
    [][/\ (\/ searchTerm' # searchTerm
           \/ categoryFilter' # categoryFilter
           \/ statusFilter' # statusFilter
           \/ currentPage' # currentPage
           \/ viewMode' # viewMode)
          => items' = items /\ error' = error
       /\ viewMode' # viewMode
          => /\ searchTerm' = searchTerm
             /\ categoryFilter' = categoryFilter
             /\ statusFilter' = statusFilter
             /\ currentPage' = currentPage
             /\ displayedItems' = displayedItems]_vars

\* the client sheet switched to the table view shows the second page of the
\* fifteen records of a category, with the message of a failed parse
\* still set
C21_Witness ==
    /\ variant = "client"
    /\ viewMode = "table"
    /\ Len(items) = 21
    /\ categoryFilter = "Bottoms"
    /\ currentPage = 2
    /\ Len(displayedItems) = 6
    /\ error = ParseErrorMessage

====
